---- MODULE Spec2Model ----
(***************************************************************************)
(* A model of scan.py: the folder scan (scan_folder), the largest-file     *)
(* line of the report (build_report) and the byte-size formatting          *)
(* (format_size).                                                          *)
(*                                                                         *)
(* File names are sequences of one-character strings, so that splitext     *)
(* and lower act on them as they do in Python.  A file path is the pair    *)
(* <<root, name>> that os.path.join(root, name) stands for.                *)
(***************************************************************************)
EXTENDS Integers, Sequences, FiniteSets, TLC

\* Files one walk yields at most, in the specification Spec.
MaxFiles == 3

\* Files one walk yields at most, in the specification SpecMany.
ManyFiles == 6

\* Base-1024 digits of the byte counts given to format_size.
MaxDigits == 6

\* The slice length of all_files[:5] and all_files[-5:].
Top == 5

\* The divisor and the threshold of format_size.
Kilo == 1024

\* The bits of the significand of a Python float.
FloatBits == 53

\* What os.path.getsize / os.path.getmtime give when they raise OSError.
OSError == -1

\* Python's None, as a file path.
None == <<>>

\* The key of a file name without extension.
NoExtension == <<"(no extension)">>

--------------------------------------------------------------------------
(* Inputs *)

\* The base names found in the tree: "a.T" and "b".
Names == { <<"a", ".", "T">>, <<"b">> }

Sizes == {0, 1, 2}

Mtimes == {1, 2}

\* What the two reads of one file give; OSError when the read raises (getmtime
\* is not called once getsize has raised).
StatOutcomes ==
    [size : Sizes, mtime : Mtimes]
        \cup { [size |-> OSError, mtime |-> OSError], [size |-> 1, mtime |-> OSError] }

\* The files of SpecMany: one name, one size, readable.
ManyNames == { <<"b">> }

ManyOutcomes == [size : {1}, mtime : {1, 2, 3}]

\* filter_exts: None, the empty set, or a set of lowercase extensions.
NoFilter == [is_none |-> TRUE, exts |-> {}]

Filters ==
    { NoFilter,
      [is_none |-> FALSE, exts |-> {}],
      [is_none |-> FALSE, exts |-> { <<".", "t">> }] }

--------------------------------------------------------------------------
(* Helpers *)

Min(a, b) == IF a < b THEN a ELSE b

RECURSIVE SumValues(_)
\* sum(counter.values())
SumValues(counter) ==
    IF DOMAIN counter = {} THEN 0
    ELSE LET k == CHOOSE x \in DOMAIN counter : TRUE
         IN counter[k] + SumValues([x \in DOMAIN counter \ {k} |-> counter[x]])

\* str.lower() on one character.
lower_char(c) ==
    CASE c = "A" -> "a"
      [] c = "B" -> "b"
      [] c = "T" -> "t"
      [] OTHER -> c

lower(s) == [i \in 1..Len(s) |-> lower_char(s[i])]

\* os.path.splitext(name)[1]: from the last dot on, unless only dots precede it.
splitext_ext(name) ==
    LET dots == {i \in 1..Len(name) : name[i] = "."}
        dotIndex == IF dots = {} THEN 0
                    ELSE CHOOSE i \in dots : \A j \in dots : j <= i
    IN IF dotIndex > 0 /\ \E i \in 1..(dotIndex - 1) : name[i] /= "."
       THEN SubSeq(name, dotIndex, Len(name))
       ELSE <<>>

\* ext = os.path.splitext(name)[1].lower() or "(no extension)"
ext_key(name) ==
    LET e == lower(splitext_ext(name))
    IN IF e = <<>> THEN NoExtension ELSE e

\* The truth value of filter_exts in "if filter_exts and ...".
truthy(filter) == ~filter.is_none /\ filter.exts /= {}

\* if filter_exts and ext not in filter_exts: continue
filtered_out(filter, ext) == truthy(filter) /\ ext \notin filter.exts

\* The try block: either read raising OSError skips the file.
stat_fails_size_only(st) == st.size = OSError

stat_fails(st) == st.size = OSError \/ st.mtime = OSError

\* counter[key] += by, on a Counter.
Inc(counter, key, by) ==
    [k \in DOMAIN counter \cup {key} |->
        (IF k \in DOMAIN counter THEN counter[k] ELSE 0)
        + (IF k = key THEN by ELSE 0)]

\* The locals of scan_folder before the loop.
InitLocals ==
    [ total_files |-> 0,
      total_size |-> 0,
      largest_file |-> None,
      largest_size |-> 0,
      ext_counter |-> <<>>,
      ext_sizes |-> <<>>,
      name_counter |-> <<>>,
      all_files |-> <<>> ]

\* if size > largest_size: largest_size = size; largest_file = filepath
update_largest(loc, filepath, size) ==
    IF size > loc.largest_size
    THEN [loc EXCEPT !.largest_size = size, !.largest_file = filepath]
    ELSE loc

count_file_no_ext_sizes(loc, filepath, name, ext, size, mtime) ==
    [ update_largest(loc, filepath, size) EXCEPT
        !.total_files = @ + 1,
        !.total_size = @ + size,
        !.ext_counter = Inc(@, ext, 1),
        !.name_counter = Inc(@, name, 1),
        !.all_files = Append(@, <<filepath, mtime, size>>) ]

\* The loop body for an accepted file.
count_file(loc, filepath, name, ext, size, mtime) ==
    [ update_largest(loc, filepath, size) EXCEPT
        !.total_files = @ + 1,
        !.total_size = @ + size,
        !.ext_counter = Inc(@, ext, 1),
        !.ext_sizes = Inc(@, ext, size),
        !.name_counter = Inc(@, name, 1),
        !.all_files = Append(@, <<filepath, mtime, size>>) ]

\* One iteration of "for name in files".
scan_step(loc, filter, root, name, st) ==
    LET ext == ext_key(name)
    IN IF filtered_out(filter, ext) THEN loc
       ELSE IF stat_fails(st) THEN loc
       ELSE count_file(loc, <<root, name>>, name, ext, st.size, st.mtime)

\* The place of x in a key-sorted list: after every element whose key is not larger.
RECURSIVE insert_after_equal(_, _)
insert_after_equal(s, x) ==
    IF s = <<>> THEN <<x>>
    ELSE IF s[Len(s)][2] <= x[2] THEN Append(s, x)
    ELSE Append(insert_after_equal(SubSeq(s, 1, Len(s) - 1), x), s[Len(s)])

RECURSIVE insert_before_equal(_, _)
insert_before_equal(s, x) ==
    IF s = <<>> THEN <<x>>
    ELSE IF s[Len(s)][2] < x[2] THEN Append(s, x)
    ELSE Append(insert_before_equal(SubSeq(s, 1, Len(s) - 1), x), s[Len(s)])

RECURSIVE sort_unstable(_)
sort_unstable(s) ==
    IF s = <<>> THEN <<>>
    ELSE insert_before_equal(sort_unstable(SubSeq(s, 1, Len(s) - 1)), s[Len(s)])

RECURSIVE sort_by_mtime(_)
\* all_files.sort(key=lambda f: f[1]): a stable sort by modification time.
sort_by_mtime(s) ==
    IF s = <<>> THEN <<>>
    ELSE insert_after_equal(sort_by_mtime(SubSeq(s, 1, Len(s) - 1)), s[Len(s)])

\* s[::-1]
reversed(s) == [i \in 1..Len(s) |-> s[Len(s) + 1 - i]]

\* all_files[:5]
first_five(s) == SubSeq(s, 1, Min(Top, Len(s)))

\* all_files[-5:][::-1]
last_five_reversed(s) ==
    reversed(SubSeq(s, Len(s) - Min(Top, Len(s)) + 1, Len(s)))

\* {name: count for name, count in name_counter.items() if count > 1}
duplicates_of(name_counter) ==
    [n \in {k \in DOMAIN name_counter : name_counter[k] > 1} |-> name_counter[n]]

\* The local names bound when the return statement is reached.
BoundNames ==
    { "total_files", "total_size", "largest_file", "largest_size",
      "ext_counter", "ext_sizes", "name_counter", "all_files",
      "oldest_files", "new_files", "duplicates" }

\* The key of the returned dict and the name its value is read from.
ReturnItems ==
    { <<"total_files", "total_files">>, <<"total_size", "total_size">>,
      <<"largest_file", "largest_file">>, <<"largest_size", "largest_size">>,
      <<"ext_counter", "ext_counter">>, <<"ext_sizes", "ext_sizes">>,
      <<"newest_files", "newest_files">>, <<"oldest_files", "oldest_files">>,
      <<"duplicates", "duplicates">> }

\* The line of build_report for the largest file.
report_largest(largest_file) ==
    IF largest_file /= None
    THEN <<"Largest file:  ", largest_file>>
    ELSE <<"Largest file:  (none)">>

--------------------------------------------------------------------------
(* format_size *)

(***************************************************************************)
(* A byte count is the sequence of its base-1024 digits, least significant *)
(* first; the number format_size holds after k divisions by 1024 is that   *)
(* digit sequence with the point after its k lowest digits.  The first     *)
(* division turns the int into a float: its 53 leading bits, rounded half  *)
(* to even; the later divisions by a power of two are exact.               *)
(***************************************************************************)

\* The digits a byte count is made of.
FmtDigits == {0, 1, 128, 384, 512, 1023}

FmtInputs == [1..MaxDigits -> FmtDigits]

\* The units of the loop of format_size.
Units == <<"B", "KB", "MB", "GB", "TB">>

\* The digits of a byte count below 1024^3.
Bytes(n) ==
    [i \in 1..MaxDigits |-> IF i <= 3 THEN (n \div Kilo^(i - 1)) % Kilo ELSE 0]

\* The highest non-zero digit of a digit sequence, 0 when there is none.
TopDigit(d) ==
    LET nz == {i \in 1..Len(d) : d[i] /= 0}
    IN IF nz = {} THEN 0 ELSE CHOOSE i \in nz : \A j \in nz : j <= i

\* The number of bits of a digit from 1 to 1023.
BitLen(v) == CHOOSE b \in 1..10 : 2^(b - 1) <= v /\ v < 2^b

RECURSIVE add_at(_, _, _)
\* d + amount * 1024^(pos - 1), the carries propagated.
add_at(d, pos, amount) ==
    IF amount = 0 THEN d
    ELSE IF pos > Len(d) THEN add_at(Append(d, 0), pos, amount)
    ELSE LET t == d[pos] + amount
         IN add_at([d EXCEPT ![pos] = t % Kilo], pos + 1, t \div Kilo)

\* The int as the nearest float: its FloatBits leading bits, the rest rounded
\* half to even.
to_float(d) ==
    LET top == TopDigit(d)
        bits == IF top = 0 THEN 0 ELSE 10 * (top - 1) + BitLen(d[top])
        drop == bits - FloatBits
    IN IF drop <= 0 THEN d
       ELSE LET pos == ((drop - 1) \div 10) + 1
                r == drop - 10 * (pos - 1)
                low == d[pos] % 2^r
                below == \E i \in 1..(pos - 1) : d[i] /= 0
                half == 2^(r - 1)
                odd == ((d[pos] + Kilo * d[pos + 1]) \div 2^r) % 2 = 1
                up == \/ low > half
                      \/ low = half /\ below
                      \/ low = half /\ ~below /\ odd
                kept == [i \in 1..Len(d) |->
                            IF i < pos THEN 0
                            ELSE IF i = pos THEN d[i] - low
                            ELSE d[i]]
            IN IF up THEN add_at(kept, pos, 2^r) ELSE kept

\* The digits left of the point, as a number.
RECURSIVE int_part(_, _)
int_part(d, shift) ==
    IF shift >= Len(d) THEN 0
    ELSE d[shift + 1] + Kilo * int_part(d, shift + 1)

\* size_bytes <= 1024
not_above_1024(d, shift) ==
    \/ \A i \in (shift + 2)..Len(d) : d[i] = 0
    \/ /\ \A i \in 1..Len(d) : (i /= shift + 2) => d[i] = 0
       /\ shift + 2 <= Len(d)
       /\ d[shift + 2] = 1

\* size_bytes < 1024
less_than_1024(d, shift) == \A i \in (shift + 2)..Len(d) : d[i] = 0

RECURSIVE cents_carry(_, _)
\* The carry out of digit i when the digits right of the point are multiplied by 100.
cents_carry(d, i) ==
    IF i = 0 THEN 0 ELSE (d[i] * 100 + cents_carry(d, i - 1)) \div Kilo

\* Digit i of the product of the digits right of the point by 100.
cents_digit(d, i) == (d[i] * 100 + cents_carry(d, i - 1)) % Kilo

\* f"{size_bytes:.2f} {unit}": the number rounded half to even to two decimals.
render(d, shift, unit) ==
    LET whole == int_part(d, shift)
        floor == cents_carry(d, shift)
        topd == IF shift = 0 THEN 0 ELSE cents_digit(d, shift)
        below == \E i \in 1..(shift - 1) : cents_digit(d, i) /= 0
        up == \/ topd > 512
              \/ topd = 512 /\ below
              \/ topd = 512 /\ ~below /\ floor % 2 = 1
        cents == IF up THEN floor + 1 ELSE floor
    IN IF cents = 100
       THEN [int |-> whole + 1, cents |-> 0, unit |-> unit]
       ELSE [int |-> whole, cents |-> cents, unit |-> unit]

RECURSIVE units_loop(_, _)
\* The loop of lines 13-16 from unit number u on, then line 17.
units_loop(d, u) ==
    IF u > Len(Units) THEN render(d, u - 1, "PB")
    ELSE IF less_than_1024(d, u - 1) THEN render(d, u - 1, Units[u])
    ELSE units_loop(to_float(d), u + 1)

format_size(size_bytes_) == units_loop(size_bytes_, 1)

--------------------------------------------------------------------------
(* The scan *)

VARIABLES
    filter_exts,   \* the filter argument of scan_folder
    pc,            \* "walking", "returned" or "raised"
    scan,          \* the locals of scan_folder(folder, filter_exts)
    unfiltered,    \* the locals of scan_folder(folder) on the same tree
    walked,        \* per name, the directories os.walk has yielded it from
    last_stat,     \* how the reads of the last file yielded ended
    encountered,   \* the accepted paths, in the order of the walk
    oldest_files,
    new_files,
    duplicates,
    exception,     \* the exception scan_folder ended with, or ""
    result,        \* <<stats>> once scan_folder has returned
    size_bytes,    \* the argument of format_size
    formatted      \* <<text>> once format_size has returned

vars == << filter_exts, pc, scan, unfiltered, walked, last_stat, encountered,
           oldest_files, new_files, duplicates, exception, result,
           size_bytes, formatted >>

\* How the try block of lines 46-50 ended.
stat_outcome(st) ==
    IF st.size = OSError THEN "getsize raised"
    ELSE IF st.mtime = OSError THEN "getmtime raised"
    ELSE "read"

StartWith(filters) ==
    /\ filter_exts \in filters
    /\ pc = "walking"
    /\ scan = InitLocals
    /\ unfiltered = InitLocals
    /\ walked = [n \in Names |-> 0]
    /\ last_stat = "none"
    /\ encountered = <<>>
    /\ oldest_files = <<>>
    /\ new_files = <<>>
    /\ duplicates = <<>>
    /\ exception = ""
    /\ result = <<>>

NoFormatting == size_bytes = <<>> /\ formatted = <<>>

Init == StartWith(Filters) /\ NoFormatting

InitMany == StartWith({NoFilter}) /\ NoFormatting

Yielded == SumValues(walked)

\* One iteration of the loops of lines 38-63, on the next file os.walk yields.
ProcessFile(name, st) ==
    /\ pc = "walking"
    /\ LET root == walked[name] + 1
           ext == ext_key(name)
           read == ~filtered_out(filter_exts, ext)
       IN /\ scan' = scan_step(scan, filter_exts, root, name, st)
          /\ unfiltered' = scan_step(unfiltered, NoFilter, root, name, st)
          /\ walked' = [walked EXCEPT ![name] = root]
          /\ last_stat' = IF read THEN stat_outcome(st) ELSE "not read"
          /\ encountered' = IF read /\ ~stat_fails(st)
                            THEN Append(encountered, <<root, name>>)
                            ELSE encountered
    /\ UNCHANGED << filter_exts, pc, oldest_files, new_files, duplicates,
                    exception, result, size_bytes, formatted >>

\* Lines 65-81: sort, slice, derive the duplicates, build the returned dict.
Finish ==
    /\ pc = "walking"
    /\ LET sorted == sort_by_mtime(scan.all_files)
           oldest == first_five(sorted)
           newest == last_five_reversed(sorted)
           dups == duplicates_of(scan.name_counter)
           ns == [n \in BoundNames |->
                    CASE n = "oldest_files" -> oldest
                      [] n = "new_files" -> newest
                      [] n = "duplicates" -> dups
                      [] n = "all_files" -> sorted
                      [] OTHER -> scan[n]]
           unbound == {it \in ReturnItems : it[2] \notin BoundNames}
       IN /\ scan' = [scan EXCEPT !.all_files = sorted]
          /\ oldest_files' = oldest
          /\ new_files' = newest
          /\ duplicates' = dups
          /\ IF unbound = {}
             THEN /\ pc' = "returned"
                  /\ exception' = ""
                  /\ result' = << [k \in {it[1] : it \in ReturnItems} |->
                                     ns[(CHOOSE it \in ReturnItems : it[1] = k)[2]]] >>
             ELSE /\ pc' = "raised"
                  /\ exception' = "NameError"
                  /\ result' = <<>>
    /\ UNCHANGED << filter_exts, unfiltered, walked, last_stat, encountered,
                    size_bytes, formatted >>

Next ==
    \/ \E name \in Names, st \in StatOutcomes :
          Yielded < MaxFiles /\ ProcessFile(name, st)
    \/ Finish

Spec == Init /\ [][Next]_vars

NextMany ==
    \/ \E name \in ManyNames, st \in ManyOutcomes :
          Yielded < ManyFiles /\ ProcessFile(name, st)
    \/ Finish

SpecMany == InitMany /\ [][NextMany]_vars

\* format_size on a byte count.
InitFormat ==
    /\ StartWith({NoFilter})
    /\ size_bytes \in FmtInputs
    /\ formatted = <<>>

FormatSize ==
    /\ formatted = <<>>
    /\ formatted' = << format_size(size_bytes) >>
    /\ UNCHANGED << filter_exts, pc, scan, unfiltered, walked, last_stat,
                    encountered, oldest_files, new_files, duplicates, exception,
                    result, size_bytes >>

NextFormat == FormatSize

SpecFormat == InitFormat /\ [][NextFormat]_vars

--------------------------------------------------------------------------
(* Properties of the scan *)

\* The keys of the stats record scan_folder is to return.
StatsKeys ==
    { "total_files", "total_size", "largest_file", "largest_size",
      "ext_counter", "ext_sizes", "newest_files", "oldest_files", "duplicates" }

\* The place of an accepted path in the order of the walk.
Place(path) == CHOOSE i \in 1..Len(encountered) : encountered[i] = path

\* The entry of all_files for an accepted path.
Entry(path) ==
    CHOOSE e \in {scan.all_files[i] : i \in 1..Len(scan.all_files)} : e[1] = path

AcceptedEntries == {scan.all_files[i] : i \in 1..Len(scan.all_files)}

Ascending(s) == \A i, j \in 1..Len(s) : i < j => s[i][2] <= s[j][2]

Descending(s) == \A i, j \in 1..Len(s) : i < j => s[i][2] >= s[j][2]

\* C1: whatever the tree, the filter and the reads that fail, scan_folder ends
\* by returning a stats record with the nine keys, never by raising.
C1_ReturnsStats ==
    pc /= "walking" =>
        /\ pc = "returned"
        /\ exception = ""
        /\ Len(result) = 1
        /\ DOMAIN result[1] = StatsKeys

\* C2: after any sequence of files, total_files is the sum of the ext_counter
\* values and total_size the sum of the ext_sizes values.
C2_TotalsMatchExtensions ==
    /\ scan.total_files = SumValues(scan.ext_counter)
    /\ scan.total_size = SumValues(scan.ext_sizes)
    /\ unfiltered.total_files = SumValues(unfiltered.ext_counter)
    /\ unfiltered.total_size = SumValues(unfiltered.ext_sizes)

C2_Witness ==
    /\ pc = "raised"
    /\ Cardinality(DOMAIN scan.ext_counter) = 2
    /\ scan.total_files = 3
    /\ scan.total_size >= 3

\* C3: with any filter set, the empty one included, the filtered scan counts no
\* more files and no more bytes than the unfiltered scan of the same tree, and
\* every file it counts has its lowercase extension key in the filter set.
C3_FilterRestricts ==
    ~filter_exts.is_none =>
        /\ scan.total_files <= unfiltered.total_files
        /\ scan.total_size <= unfiltered.total_size
        /\ \A e \in AcceptedEntries : ext_key(e[1][2]) \in filter_exts.exts

\* The part of C3 the code keeps: the totals of the filtered scan never exceed
\* those of the unfiltered scan, and a non-empty filter set admits only its keys.
FilteredTotalsBelowUnfiltered ==
    /\ scan.total_files <= unfiltered.total_files
    /\ scan.total_size <= unfiltered.total_size
    /\ truthy(filter_exts) =>
          \A e \in AcceptedEntries : ext_key(e[1][2]) \in filter_exts.exts

\* C4: a file whose size read or modification-time read fails changes nothing:
\* the totals, the largest file, the per-extension maps, the name counts and
\* the list behind newest/oldest stay as they were.
C4_UnreadableChangesNothing ==
    [][ (walked' /= walked /\ last_stat' \in {"getsize raised", "getmtime raised"})
          => /\ scan'.total_files = scan.total_files
             /\ scan'.total_size = scan.total_size
             /\ scan'.largest_file = scan.largest_file
             /\ scan'.largest_size = scan.largest_size
             /\ scan'.ext_counter = scan.ext_counter
             /\ scan'.ext_sizes = scan.ext_sizes
             /\ scan'.name_counter = scan.name_counter
             /\ scan'.all_files = scan.all_files
             /\ unfiltered' = unfiltered ]_vars

C4_Witness ==
    /\ last_stat = "getmtime raised"
    /\ scan.total_files > 0
    /\ Yielded > scan.total_files

\* C5: the largest file is absent, and reported as "(none)", exactly when no
\* file was counted; one counted file of any size gives a largest file.
C5_LargestAbsentIffNoFiles ==
    /\ (scan.largest_file = None) <=> (scan.total_files = 0)
    /\ (report_largest(scan.largest_file) = <<"Largest file:  (none)">>)
          <=> (scan.total_files = 0)

\* C6: when a file was counted, the largest file is a counted file, largest_size
\* is its size, no counted file is larger, and it is the first of that size.
C6_LargestIsFirstMaximum ==
    scan.total_files > 0 =>
        /\ scan.largest_file \in {e[1] : e \in AcceptedEntries}
        /\ Entry(scan.largest_file)[3] = scan.largest_size
        /\ \A e \in AcceptedEntries :
              /\ e[3] <= scan.largest_size
              /\ (e[3] = scan.largest_size /\ e[1] /= scan.largest_file)
                    => Place(scan.largest_file) < Place(e[1])

\* What C6 comes to on the code: it holds once a file of non-zero size is counted.
LargestIsFirstMaximumAmongNonEmpty ==
    scan.largest_size > 0 =>
        /\ scan.largest_file \in {e[1] : e \in AcceptedEntries}
        /\ Entry(scan.largest_file)[3] = scan.largest_size
        /\ \A e \in AcceptedEntries :
              /\ e[3] <= scan.largest_size
              /\ (e[3] = scan.largest_size /\ e[1] /= scan.largest_file)
                    => Place(scan.largest_file) < Place(e[1])

\* C7: the returned stats hold newest_files sorted by modification time
\* descending and oldest_files ascending, each of length min(5, total_files)
\* and made of entries of counted files.
C7_ReturnedNewestAndOldest ==
    pc /= "walking" =>
        /\ Len(result) = 1
        /\ Descending(result[1].newest_files)
        /\ Ascending(result[1].oldest_files)
        /\ Len(result[1].newest_files) = Min(Top, result[1].total_files)
        /\ Len(result[1].oldest_files) = Min(Top, result[1].total_files)
        /\ \A i \in 1..Len(result[1].newest_files) :
              result[1].newest_files[i] \in AcceptedEntries
        /\ \A i \in 1..Len(result[1].oldest_files) :
              result[1].oldest_files[i] \in AcceptedEntries

\* The lists of lines 66-67, which the return statement does not reach: they
\* are sorted, of length min(5, total_files) and made of counted files.
ComputedNewestAndOldest ==
    pc /= "walking" =>
        /\ Descending(new_files)
        /\ Ascending(oldest_files)
        /\ Len(new_files) = Min(Top, scan.total_files)
        /\ Len(oldest_files) = Min(Top, scan.total_files)
        /\ \A i \in 1..Len(new_files) : new_files[i] \in AcceptedEntries
        /\ \A i \in 1..Len(oldest_files) : oldest_files[i] \in AcceptedEntries

\* The counted files with a given base name.
NamedFiles(name) == {i \in 1..Len(encountered) : encountered[i][2] = name}

\* C8: the returned duplicates map has a name as key exactly when two or more
\* counted files have that base name, with their number as value.
C8_ReturnedDuplicates ==
    pc /= "walking" =>
        /\ Len(result) = 1
        /\ \A name \in Names :
              /\ name \in DOMAIN result[1].duplicates
                    <=> Cardinality(NamedFiles(name)) >= 2
              /\ name \in DOMAIN result[1].duplicates
                    => result[1].duplicates[name] = Cardinality(NamedFiles(name))
        /\ DOMAIN result[1].duplicates \subseteq Names

\* The map of line 69, which the return statement does not reach.
ComputedDuplicates ==
    pc /= "walking" =>
        /\ \A name \in Names :
              /\ name \in DOMAIN duplicates <=> Cardinality(NamedFiles(name)) >= 2
              /\ name \in DOMAIN duplicates
                    => duplicates[name] = Cardinality(NamedFiles(name))
        /\ DOMAIN duplicates \subseteq Names

\* Entries of equal modification time stand in the order of the walk.
TiesInWalkOrder(s) ==
    \A i, j \in 1..Len(s) :
        (i < j /\ s[i][2] = s[j][2]) => Place(s[i][1]) < Place(s[j][1])

\* Entries of equal modification time stand in the reverse of the order of the walk.
TiesInReverseWalkOrder(s) ==
    \A i, j \in 1..Len(s) :
        (i < j /\ s[i][2] = s[j][2]) => Place(s[i][1]) > Place(s[j][1])

HasTie(s) == \E i, j \in 1..Len(s) : i < j /\ s[i][2] = s[j][2]

\* C10 as stated: in the oldest list and in the newest list alike, files of
\* equal modification time stand in the order the walk met them.
C10_TiesInWalkOrderInBothLists ==
    pc /= "walking" => TiesInWalkOrder(oldest_files) /\ TiesInWalkOrder(new_files)

\* C10, amended: files of equal modification time stand in the order of the walk
\* in the oldest list, and in the reverse of that order in the newest list.
C10_TiesWalkOrderOldestReverseNewest ==
    pc /= "walking" =>
        TiesInWalkOrder(oldest_files) /\ TiesInReverseWalkOrder(new_files)

C10_Witness ==
    /\ pc = "raised"
    /\ Len(scan.all_files) > Top
    /\ HasTie(oldest_files)
    /\ HasTie(new_files)

--------------------------------------------------------------------------
(* Properties of format_size *)

Text(whole, cents, unit) == [int |-> whole, cents |-> cents, unit |-> unit]

\* The first unit at which the byte count, divided by 1024 once per unit
\* passed, is below 1024; PB when there is none.
FirstUnitBelow1024(d) ==
    LET top == TopDigit(d)
    IN IF top <= 1 THEN "B"
       ELSE IF top > Len(Units) THEN "PB"
       ELSE Units[top]

\* The byte count is below 1024^6.
BelowKiloPeta(d) == \A i \in 1..Len(d) : i > 6 => d[i] = 0

\* The five byte counts the specification spells out.
FormatExamples ==
    /\ size_bytes = Bytes(0) => formatted[1] = Text(0, 0, "B")
    /\ size_bytes = Bytes(1023) => formatted[1] = Text(1023, 0, "B")
    /\ size_bytes = Bytes(1024) => formatted[1] = Text(1, 0, "KB")
    /\ size_bytes = Bytes(1536) => formatted[1] = Text(1, 50, "KB")
    /\ size_bytes = Bytes(1048576) => formatted[1] = Text(1, 0, "MB")

\* C9 as stated: format_size picks the first unit at which the scaled value is
\* below 1024 (PB if none), the number it shows for a count below 1024^6 is
\* below 1024, and 0, 1023, 1024, 1536 and 1048576 give "0.00 B", "1023.00 B",
\* "1.00 KB", "1.50 KB" and "1.00 MB".
C9_ShownNumberBelow1024 ==
    formatted /= <<>> =>
        /\ formatted[1].unit = FirstUnitBelow1024(size_bytes)
        /\ BelowKiloPeta(size_bytes) => formatted[1].int < Kilo
        /\ FormatExamples

\* C9, amended: the same, except that the number shown for a count below 1024^6
\* is at most 1024.00, which rounding to two decimals does reach.
C9_ShownNumberAtMost1024 ==
    formatted /= <<>> =>
        /\ formatted[1].unit = FirstUnitBelow1024(size_bytes)
        /\ BelowKiloPeta(size_bytes) =>
              \/ formatted[1].int < Kilo
              \/ formatted[1].int = Kilo /\ formatted[1].cents = 0
        /\ FormatExamples

C9_Witness ==
    /\ size_bytes = Bytes(1048575)
    /\ formatted = << Text(1024, 0, "KB") >>

====
